---- MODULE Spec2Model ----
(***************************************************************************)
(* Model of choropleth_overlay_generator.ipynb: one run of the notebook,   *)
(* cell by cell and, inside the plotting cell, statement by statement.     *)
(* The matplotlib / geopandas objects the notebook mutates (the axes, the  *)
(* legend, the figure's subplot parameters, the two output files) are the  *)
(* state.  Lengths are integers: data coordinates in metres, canvas        *)
(* coordinates in pixels, subplot parameters in thousandths of the figure. *)
(***************************************************************************)
EXTENDS Integers, Sequences, FiniteSets, TLC

(***************************************************************************)
(* Bounds of the model                                                     *)
(***************************************************************************)
\* at most this many distinct category codes in the plotted column
MaxCodes == 2
\* data extents are 1..MaxSpan units of 2000 metres wide and high
MaxSpan == 2

(***************************************************************************)
(* Configuration cell                                                      *)
(***************************************************************************)
ExpectedCRS == "EPSG:27700"

legend_label_lookup ==
    [c \in {"A", "B", "C", "D", "E", "F", "G", "H"} |->
        CASE c = "A" -> "Intermediate Lifestyles"
          [] c = "B" -> "High Density and High Rise Flats"
          [] c = "C" -> "Settled Asians"
          [] c = "D" -> "Urban Elites"
          [] c = "E" -> "City Vibe"
          [] c = "F" -> "London Life-Cycle"
          [] c = "G" -> "Multi-Ethnic Suburbs"
          [] c = "H" -> "Ageing City Fringe"]

ue_world_origin_bng_eastings == 532816
ue_world_origin_bng_northings == 180759

\* figure size in tenths of an inch (12.8 in x 9.6 in) and resolution
width_inches_x10 == 128
height_inches_x10 == 96
dpi == 600
\* the resolution export_legend passes to fig.savefig
legend_dpi == 600
\* export_legend's default expand=[-5,-5,5,5]
expand == <<-5, -5, 5, 5>>

(***************************************************************************)
(* Inputs of a run                                                         *)
(***************************************************************************)
\* CRS identifiers a dataset may carry; the second is geographic
CRSs == {"EPSG:27700", "EPSG:4326", "EPSG:3857"}
IsGeographic(crs) == crs = "EPSG:4326"

\* category codes of the data, in the sorted order a categorical plot lists them
CodeOrder == <<"A", "C", "H">>
CodeSets == {S \in SUBSET {CodeOrder[i] : i \in 1..Len(CodeOrder)} :
                Cardinality(S) >= 1 /\ Cardinality(S) <= MaxCodes}
SortedCodes(S) == SelectSeq(CodeOrder, LAMBDA c : c \in S)

\* label maps: the notebook's, and the notebook's with one key removed
Without(d, k) == [c \in (DOMAIN d) \ {k} |-> d[c]]
LabelDicts == {legend_label_lookup} \cup
              {Without(legend_label_lookup, CodeOrder[i]) : i \in 1..Len(CodeOrder)}

\* total bounds of the geometries (metres)
LowerLefts == {<<500100, 160100>>, <<530000, 181000>>}
DataBounds == {[xmin |-> ll[1], xmax |-> ll[1] + 2000 * i,
                ymin |-> ll[2], ymax |-> ll[2] + 2000 * j] :
                  ll \in LowerLefts, i \in 1..MaxSpan, j \in 1..MaxSpan}

\* world origins: the notebook's and another one
Origins == {<<ue_world_origin_bng_eastings, ue_world_origin_bng_northings>>,
            <<500000, 200000>>}

\* resolution of the drawing canvas (rcParams['figure.dpi'])
FigDpis == {100, 200}

\* axes aspect: length of a y unit over length of an x unit, n/d; 'auto'
\* leaves the two independent
Auto == [n |-> 0, d |-> 1]
Equal == [n |-> 1, d |-> 1]
\* aspect geopandas gives a plot of geographic coordinates (1/cos(latitude));
\* a plot of projected coordinates gets 'equal'
GeoAspects == {[n |-> 3, d |-> 2]}

NoLimits == [xmin |-> 0, xmax |-> 1, ymin |-> 0, ymax |-> 1]
NoFile == [status |-> "absent"]
NoBox == [x0 |-> 0, y0 |-> 0, x1 |-> 0, y1 |-> 0]
NoLegend == [exists |-> FALSE, attached |-> FALSE, texts |-> <<>>, bbox |-> NoBox]

\* window extents (canvas pixels) the renderer may measure for the legend box
LegendBoxes == {[x0 |-> 1500, y0 |-> 700, x1 |-> 1700, y1 |-> 800],
                [x0 |-> 900, y0 |-> 300, x1 |-> 1300, y1 |-> 420]}

\* amounts (pixels) by which tick labels stick out of the axes box
TickPads == {40}

VARIABLES
    pc,             \* next statement of the run, or "done" / "failed"
    error,          \* exception that ended the run, "none" while it runs
    failedAt,       \* statement that raised it
    gdf,            \* the loaded table: crs, empty, columns, codes, bounds
    labelDict,      \* legend_label_dict handed to export_legend
    origin,         \* world origin <<eastings, northings>>
    figdpi,         \* fig.dpi of the drawing canvas
    warned,         \* the CRS warning was printed
    legend,         \* ax.get_legend(): exists, attached, texts, bbox
    lim,            \* axes view limits
    aspect,         \* axes aspect, Auto or a ratio
    adjustable,     \* "box" or "datalim"
    autoscale_on,
    ticks,          \* TRUE while the axes carry tick locations
    axison,
    subplotpars,    \* left, right, bottom, top in thousandths
    xlim, ylim,     \* the notebook's captured limits
    legendFile,     \* file at legend_filename
    textureFile,    \* file at texture_filename
    printed,        \* values printed by the last cell
    steps           \* statements of the plotting cell executed so far

vars == <<pc, error, failedAt, gdf, labelDict, origin, figdpi, warned, legend,
          lim, aspect, adjustable, autoscale_on, ticks, axison, subplotpars,
          xlim, ylim, legendFile, textureFile, printed, steps>>

inputs == <<gdf, labelDict, origin, figdpi>>
axesVars == <<lim, aspect, adjustable, autoscale_on, ticks, axison, subplotpars>>
outVars == <<legendFile, textureFile, printed>>

Init ==
    /\ pc = "load"
    /\ error = "none"
    /\ failedAt = "none"
    /\ gdf \in [crs : CRSs, empty : BOOLEAN, hasColumn : BOOLEAN,
                codes : {SortedCodes(S) : S \in CodeSets}, bounds : DataBounds]
    /\ labelDict \in LabelDicts
    /\ origin \in Origins
    /\ figdpi \in FigDpis
    /\ warned = FALSE
    /\ legend = NoLegend
    /\ lim = NoLimits
    /\ aspect = Auto
    /\ adjustable = "box"
    /\ autoscale_on = TRUE
    /\ ticks = TRUE
    /\ axison = TRUE
    /\ subplotpars = [left |-> 125, right |-> 900, bottom |-> 110, top |-> 880]
    /\ xlim = <<>>
    /\ ylim = <<>>
    /\ legendFile = NoFile
    /\ textureFile = NoFile
    /\ printed = <<>>
    /\ steps = <<>>

(***************************************************************************)
(* matplotlib behaviour the notebook relies on                             *)
(***************************************************************************)
\* a / b rounded to the nearest integer (a >= 0, b > 0)
RDiv(a, b) == (2 * a + b) \div (2 * b)

\* autoscale_view: the data bounds widened by the default 5% margins
Autoscale(b) ==
    [xmin |-> b.xmin - (b.xmax - b.xmin) \div 20,
     xmax |-> b.xmax + (b.xmax - b.xmin) \div 20,
     ymin |-> b.ymin - (b.ymax - b.ymin) \div 20,
     ymax |-> b.ymax + (b.ymax - b.ymin) \div 20]

FigWidthPx == (width_inches_x10 * dpi) \div 10
FigHeightPx == (height_inches_x10 * dpi) \div 10

\* apply_aspect at draw time, for a figure rendered at dpi: the subplot
\* rectangle is pars; with aspect 'auto' the axes fill it; otherwise one y
\* unit is drawn asp.n/asp.d times as long as one x unit, by shrinking the
\* axes box (adjustable 'box') or by widening the limits (adjustable 'datalim')
ApplyAspect(pars, asp, adj, l) ==
    LET Wa == (FigWidthPx * (pars.right - pars.left)) \div 1000
        Ha == (FigHeightPx * (pars.top - pars.bottom)) \div 1000
        w == l.xmax - l.xmin
        h == l.ymax - l.ymin
        tall == asp.n * h * Wa > asp.d * w * Ha
    IN  IF asp = Auto
        THEN [lim |-> l, box |-> [w |-> Wa, h |-> Ha]]
        ELSE IF adj = "box"
        THEN [lim |-> l,
              box |-> IF tall
                      THEN [w |-> RDiv(Ha * asp.d * w, asp.n * h), h |-> Ha]
                      ELSE [w |-> Wa, h |-> RDiv(Wa * asp.n * h, asp.d * w)]]
        ELSE [box |-> [w |-> Wa, h |-> Ha],
              lim |-> IF tall
                      THEN LET nw == RDiv(asp.n * h * Wa, asp.d * Ha)
                               x0 == l.xmin - (nw - w) \div 2
                           IN  [l EXCEPT !.xmin = x0, !.xmax = x0 + nw]
                      ELSE LET nh == RDiv(asp.d * w * Ha, asp.n * Wa)
                               y0 == l.ymin - (nh - h) \div 2
                           IN  [l EXCEPT !.ymin = y0, !.ymax = y0 + nh]]

\* outcomes of writing an image file: written whole, the write failing
\* part-way, or the file not being created at all
WriteOutcomes == {"complete", "partial", "absent"}

Fail(at, err) ==
    /\ pc' = "failed"
    /\ error' = err
    /\ failedAt' = at

(***************************************************************************)
(* Cell 2: load the data, check the CRS                                    *)
(***************************************************************************)
\* Load, had the CRS check been fatal
LoadStrict ==
    /\ pc = "load"
    /\ warned' = (gdf.crs # ExpectedCRS)
    /\ IF gdf.crs # ExpectedCRS
       THEN Fail("load", "CRSError")
       ELSE pc' = "plot" /\ UNCHANGED <<error, failedAt>>
    /\ UNCHANGED <<inputs, legend, axesVars, xlim, ylim, outVars, steps>>

Load ==
    /\ pc = "load"
    /\ warned' = (gdf.crs # ExpectedCRS)
    /\ pc' = "plot"
    /\ UNCHANGED <<error, failedAt, inputs, legend, axesVars, xlim, ylim,
                   outVars, steps>>

(***************************************************************************)
(* Cell 4: render, export the legend, strip the axes, save the texture     *)
(***************************************************************************)
\* what gdf.plot(column_to_plot, ...) does with a table: a missing column
\* raises; an empty table is not drawn (the call warns and returns the bare
\* axes, or raises, depending on the geopandas release)
\* PlotOutcomes, had a missing column been tolerated
PlotOutcomesLenient(g) ==
    IF g.empty THEN {"nolegend", "raise"} ELSE {"ok"}

PlotOutcomes(g) ==
    IF g.empty THEN {"nolegend", "raise"}
    ELSE IF ~g.hasColumn THEN {"raise"}
    ELSE {"ok"}

Plot ==
    /\ pc = "plot"
    /\ \E o \in PlotOutcomes(gdf) :
         \/ /\ o = "raise"
            /\ Fail("plot", IF gdf.empty THEN "ValueError" ELSE "KeyError")
            /\ UNCHANGED <<legend, lim, aspect>>
         \/ /\ o = "nolegend"
            /\ pc' = "export_legend"
            /\ UNCHANGED <<error, failedAt, legend, lim, aspect>>
         \/ /\ o = "ok"
            /\ pc' = "export_legend"
            /\ legend' = [exists |-> TRUE, attached |-> TRUE,
                          texts |-> gdf.codes, bbox |-> NoBox]
            /\ lim' = Autoscale(gdf.bounds)
            /\ aspect' \in (IF IsGeographic(gdf.crs) THEN GeoAspects ELSE {Equal})
            /\ UNCHANGED <<error, failedAt>>
    /\ steps' = Append(steps, "plot")
    /\ UNCHANGED <<inputs, warned, adjustable, autoscale_on, ticks, axison,
                   subplotpars, xlim, ylim, outVars>>

\* the loop of export_legend: each text is replaced by legend_label_dict[text],
\* in order; the first text that is no key raises KeyError and the texts
\* before it stay replaced
\* Relabel, had the lookup been legend_label_dict.get(text, text)
RelabelSkip(texts, d) ==
    [ok |-> TRUE,
     texts |-> [i \in 1..Len(texts) |->
                  IF texts[i] \in DOMAIN d THEN d[texts[i]] ELSE texts[i]]]

Relabel(texts, d) ==
    LET missing == {i \in 1..Len(texts) : texts[i] \notin DOMAIN d}
        stop == IF missing = {} THEN Len(texts) + 1
                ELSE CHOOSE i \in missing : \A j \in missing : i <= j
    IN  [ok |-> missing = {},
         texts |-> [i \in 1..Len(texts) |->
                      IF i < stop THEN d[texts[i]] ELSE texts[i]]]

\* bbox.from_extents(*(bbox.extents + np.array(expand)))
\* Expand, had the margin been added to all four extents
ExpandShifted(bbox) ==
    [x0 |-> bbox.x0 + expand[3], y0 |-> bbox.y0 + expand[4],
     x1 |-> bbox.x1 + expand[3], y1 |-> bbox.y1 + expand[4]]

Expand(bbox) ==
    [x0 |-> bbox.x0 + expand[1], y0 |-> bbox.y0 + expand[2],
     x1 |-> bbox.x1 + expand[3], y1 |-> bbox.y1 + expand[4]]

\* bbox.transformed(fig.dpi_scale_trans.inverted()): canvas pixels to inches,
\* kept as the pixel numerators over the denominator fig.dpi
ToInches(bbox, fdpi) == [num |-> bbox, den |-> fdpi]

\* pixel size of the region bbox_inches of a figure saved at resolution d
SavedPixels(inches, d) ==
    [w |-> RDiv((inches.num.x1 - inches.num.x0) * d, inches.den),
     h |-> RDiv((inches.num.y1 - inches.num.y0) * d, inches.den)]

ExportLegend ==
    /\ pc = "export_legend"
    /\ steps' = Append(steps, "export_legend")
    /\ IF ~legend.exists
       THEN \* legend is None: legend.figure raises
            /\ Fail("export_legend", "AttributeError")
            /\ UNCHANGED <<legend, lim, legendFile>>
       ELSE LET r == Relabel(legend.texts, labelDict)
                drawn == ApplyAspect(subplotpars, aspect, adjustable, lim)
            IN  /\ lim' = drawn.lim
                /\ IF ~r.ok
                   THEN /\ Fail("export_legend", "KeyError")
                        /\ legend' = [legend EXCEPT !.texts = r.texts]
                        /\ UNCHANGED legendFile
                   ELSE \E box \in LegendBoxes, o \in WriteOutcomes :
                          LET inches == ToInches(Expand(box), figdpi)
                          IN  /\ legend' = [legend EXCEPT !.texts = r.texts,
                                                          !.bbox = box]
                              /\ legendFile' =
                                   IF o = "absent" THEN legendFile
                                   ELSE [status |-> o,
                                         bbox_inches |-> inches,
                                         dpi |-> legend_dpi,
                                         size |-> SavedPixels(inches, legend_dpi),
                                         texts |-> r.texts]
                              /\ IF o = "complete"
                                 THEN /\ pc' = "legend_remove"
                                      /\ UNCHANGED <<error, failedAt>>
                                 ELSE Fail("export_legend", "OSError")
    /\ UNCHANGED <<inputs, warned, aspect, adjustable, autoscale_on, ticks,
                   axison, subplotpars, xlim, ylim, textureFile, printed>>

\* LegendRemove, had legend.remove() been left out
LegendRemoveSkipped ==
    /\ pc = "legend_remove"
    /\ pc' = "axis_scaled"
    /\ steps' = Append(steps, "legend_remove")
    /\ UNCHANGED <<error, failedAt, inputs, warned, legend, axesVars, xlim, ylim,
                   outVars>>

LegendRemove ==
    /\ pc = "legend_remove"
    /\ legend' = [legend EXCEPT !.attached = FALSE]
    /\ pc' = "axis_scaled"
    /\ steps' = Append(steps, "legend_remove")
    /\ UNCHANGED <<error, failedAt, inputs, warned, axesVars, xlim, ylim, outVars>>

\* AxisScaled, had the call been ax.axis('tight'): no equal aspect
AxisScaledAuto ==
    /\ pc = "axis_scaled"
    /\ lim' = Autoscale(gdf.bounds)
    /\ aspect' = Auto
    /\ adjustable' = "box"
    /\ autoscale_on' = FALSE
    /\ pc' = "get_limits"
    /\ steps' = Append(steps, "axis_scaled")
    /\ UNCHANGED <<error, failedAt, inputs, warned, legend, ticks, axison,
                   subplotpars, xlim, ylim, outVars>>

\* AxisScaled, had the call been ax.axis('equal'): equal aspect by changing
\* the limits
AxisScaledDatalim ==
    /\ pc = "axis_scaled"
    /\ lim' = Autoscale(gdf.bounds)
    /\ aspect' = Equal
    /\ adjustable' = "datalim"
    /\ autoscale_on' = TRUE
    /\ pc' = "get_limits"
    /\ steps' = Append(steps, "axis_scaled")
    /\ UNCHANGED <<error, failedAt, inputs, warned, legend, ticks, axison,
                   subplotpars, xlim, ylim, outVars>>

\* ax.axis('scaled'): autoscale the view to the data, then equal aspect by
\* resizing the box, anchored at the centre, and autoscaling off
AxisScaled ==
    /\ pc = "axis_scaled"
    /\ lim' = Autoscale(gdf.bounds)
    /\ aspect' = Equal
    /\ adjustable' = "box"
    /\ autoscale_on' = FALSE
    /\ pc' = "get_limits"
    /\ steps' = Append(steps, "axis_scaled")
    /\ UNCHANGED <<error, failedAt, inputs, warned, legend, ticks, axison,
                   subplotpars, xlim, ylim, outVars>>

GetLimits ==
    /\ pc = "get_limits"
    /\ xlim' = <<lim.xmin, lim.xmax>>
    /\ ylim' = <<lim.ymin, lim.ymax>>
    /\ pc' = "set_ticks"
    /\ steps' = Append(steps, "get_limits")
    /\ UNCHANGED <<error, failedAt, inputs, warned, legend, axesVars, outVars>>

\* set_xticks([]), set_yticks([]): an empty list of locations leaves the
\* view limits alone
SetTicks ==
    /\ pc = "set_ticks"
    /\ ticks' = FALSE
    /\ pc' = "axis_off"
    /\ steps' = Append(steps, "set_ticks")
    /\ UNCHANGED <<error, failedAt, inputs, warned, legend, lim, aspect,
                   adjustable, autoscale_on, axison, subplotpars, xlim, ylim,
                   outVars>>

AxisOff ==
    /\ pc = "axis_off"
    /\ axison' = FALSE
    /\ pc' = "subplots_adjust"
    /\ steps' = Append(steps, "axis_off")
    /\ UNCHANGED <<error, failedAt, inputs, warned, legend, lim, aspect,
                   adjustable, autoscale_on, ticks, subplotpars, xlim, ylim,
                   outVars>>

SubplotsAdjust ==
    /\ pc = "subplots_adjust"
    /\ subplotpars' = [left |-> 0, right |-> 1000, bottom |-> 0, top |-> 1000]
    /\ pc' = "savefig"
    /\ steps' = Append(steps, "subplots_adjust")
    /\ UNCHANGED <<error, failedAt, inputs, warned, legend, lim, aspect,
                   adjustable, autoscale_on, ticks, axison, xlim, ylim, outVars>>

\* bbox_inches='tight', pad_inches=0: the saved region is the bounding box of
\* everything drawn, at resolution dpi: the axes box, widened by the legend
\* while it is attached and by the tick labels while the axis is on
TightSize(box, leg, axon, tk, fdpi, pad) ==
    [w |-> box.w + (IF leg.attached
                    THEN RDiv((leg.bbox.x1 - leg.bbox.x0) * dpi, fdpi) ELSE 0)
                 + (IF axon /\ tk THEN pad ELSE 0),
     h |-> box.h + (IF axon /\ tk THEN pad ELSE 0)]

SaveTexture ==
    /\ pc = "savefig"
    /\ steps' = Append(steps, "savefig")
    /\ LET drawn == ApplyAspect(subplotpars, aspect, adjustable, lim)
       IN  /\ lim' = drawn.lim
           /\ \E o \in WriteOutcomes, pad \in TickPads :
                /\ textureFile' =
                     IF o = "absent" THEN textureFile
                     ELSE [status |-> o,
                           dpi |-> dpi,
                           size |-> TightSize(drawn.box, legend, axison, ticks,
                                              figdpi, pad),
                           lim |-> drawn.lim,
                           canvas |-> [legend_attached |-> legend.attached,
                                       legend_saved |-> legendFile.status = "complete",
                                       aspect |-> aspect,
                                       ticks |-> ticks,
                                       axison |-> axison,
                                       subplotpars |-> subplotpars]]
                /\ IF o = "complete"
                   THEN /\ pc' = "report"
                        /\ UNCHANGED <<error, failedAt>>
                   ELSE Fail("savefig", "OSError")
    /\ UNCHANGED <<inputs, warned, legend, aspect, adjustable, autoscale_on,
                   ticks, axison, subplotpars, xlim, ylim, legendFile, printed>>

(***************************************************************************)
(* Cell 5: the values needed to place the texture                          *)
(***************************************************************************)
\* EastingsOffsetCm without the negation
EastingsOffsetCmNaive(origin_x, xmin) == 100 * (origin_x - xmin)

EastingsOffsetCm(origin_x, xmin) == -100 * (origin_x - xmin)
NorthingsOffsetCm(origin_y, ymin) == 100 * (origin_y - ymin)
TextureWidthCm(xmin, xmax) == 100 * (xmax - xmin)
TextureHeightCm(ymin, ymax) == 100 * (ymax - ymin)

\* Report, had the width been measured from the world origin
ReportFromOrigin ==
    /\ pc = "report"
    /\ printed' = [ll_eastings |-> lim.xmin,
                   ll_northings |-> lim.ymin,
                   eastings_offset_cm |-> EastingsOffsetCm(origin[1], lim.xmin),
                   northings_offset_cm |-> NorthingsOffsetCm(origin[2], lim.ymin),
                   texture_width_cm |-> TextureWidthCm(origin[1], lim.xmax),
                   texture_height_cm |-> TextureHeightCm(origin[2], lim.ymax)]
    /\ pc' = "done"
    /\ UNCHANGED <<error, failedAt, inputs, warned, legend, axesVars, xlim, ylim,
                   legendFile, textureFile, steps>>

Report ==
    /\ pc = "report"
    /\ printed' = [ll_eastings |-> lim.xmin,
                   ll_northings |-> lim.ymin,
                   eastings_offset_cm |-> EastingsOffsetCm(origin[1], lim.xmin),
                   northings_offset_cm |-> NorthingsOffsetCm(origin[2], lim.ymin),
                   texture_width_cm |-> TextureWidthCm(lim.xmin, lim.xmax),
                   texture_height_cm |-> TextureHeightCm(lim.ymin, lim.ymax)]
    /\ pc' = "done"
    /\ UNCHANGED <<error, failedAt, inputs, warned, legend, axesVars, xlim, ylim,
                   legendFile, textureFile, steps>>

Next ==
    \/ Load
    \/ Plot
    \/ ExportLegend
    \/ LegendRemove
    \/ AxisScaled
    \/ GetLimits
    \/ SetTicks
    \/ AxisOff
    \/ SubplotsAdjust
    \/ SaveTexture
    \/ Report

Spec == Init /\ [][Next]_vars

(***************************************************************************)
(* Properties                                                              *)
(***************************************************************************)
Abs(n) == IF n < 0 THEN -n ELSE n

\* some category code listed in the legend is no key of the label map
MissingCode == \E i \in 1..Len(gdf.codes) : gdf.codes[i] \notin DOMAIN labelDict

\* the statements of the plotting cell, in program order
CellOrder == <<"plot", "export_legend", "legend_remove", "axis_scaled",
               "get_limits", "set_ticks", "axis_off", "subplots_adjust", "savefig">>

NoPadding == [left |-> 0, right |-> 1000, bottom |-> 0, top |-> 1000]

\* C1: the printed eastings offset is -100*(origin_x - xmin), the negation of
\* the naive offset, and the printed northings offset is +100*(origin_y - ymin),
\* for the final lower-left corner (xmin, ymin); origin (532816, 180759) with
\* xmin = 500000, ymin = 160000 gives -3281600 and 2075900.
OffsetSigns ==
    printed # <<>> =>
        /\ printed.eastings_offset_cm = -100 * (origin[1] - lim.xmin)
        /\ printed.eastings_offset_cm + 100 * (origin[1] - lim.xmin) = 0
        /\ printed.northings_offset_cm = 100 * (origin[2] - lim.ymin)
        /\ (origin = <<532816, 180759>> /\ lim.xmin = 500000 /\ lim.ymin = 160000
              => /\ printed.eastings_offset_cm = -3281600
                 /\ printed.northings_offset_cm = 2075900)

OffsetSignsWitness ==
    /\ pc = "done"
    /\ origin = <<532816, 180759>>
    /\ lim.xmin = 500000
    /\ lim.ymin = 160000
    /\ printed.eastings_offset_cm = -3281600
    /\ printed.northings_offset_cm = 2075900

\* C2: for limits with xmin <= xmax and ymin <= ymax and any world origin, the
\* printed width is 100*(xmax-xmin) and the printed height 100*(ymax-ymin),
\* both non-negative, whatever the origin.
TextureSizeCm ==
    printed # <<>> /\ lim.xmin <= lim.xmax /\ lim.ymin <= lim.ymax =>
        /\ printed.texture_width_cm = 100 * (lim.xmax - lim.xmin)
        /\ printed.texture_height_cm = 100 * (lim.ymax - lim.ymin)
        /\ printed.texture_width_cm >= 0
        /\ printed.texture_height_cm >= 0

TextureSizeCmWitness ==
    /\ pc = "done"
    /\ origin # <<ue_world_origin_bng_eastings, ue_world_origin_bng_northings>>
    /\ printed.texture_width_cm = 100 * (lim.xmax - lim.xmin)
    /\ printed.texture_width_cm > printed.texture_height_cm

\* C3: when a code shown in the legend is no key of the label map, the run
\* fails in export_legend with the lookup error before anything is written:
\* neither file exists; when every shown code is a key, every legend text is
\* its mapped label once export_legend has run.
LabelLookupIsFatal ==
    /\ legend.exists /\ MissingCode =>
         /\ pc \in {"export_legend", "failed"}
         /\ legendFile.status = "absent"
         /\ textureFile.status = "absent"
         /\ pc = "failed" => error = "KeyError" /\ failedAt = "export_legend"
    /\ legend.exists /\ ~MissingCode /\ Len(steps) >= 2 =>
         legend.texts = [i \in 1..Len(gdf.codes) |-> labelDict[gdf.codes[i]]]

LabelLookupIsFatalWitness ==
    /\ pc = "failed"
    /\ error = "KeyError"
    /\ failedAt = "export_legend"
    /\ Len(gdf.codes) = 2
    /\ gdf.codes[1] \in DOMAIN labelDict
    /\ gdf.codes[2] \notin DOMAIN labelDict
    /\ legendFile.status = "absent"

\* C4: a CRS other than the expected one only sets off the warning: the
\* warning is printed exactly when the CRS differs, no run fails because of
\* it, a run that has not ended can always take its next step, and a run
\* that ends without an error has executed every statement, written both
\* images whole and printed the values.
CrsMismatchOnlyWarns ==
    /\ pc = "load" => ~warned
    /\ pc # "load" => (warned <=> gdf.crs # ExpectedCRS)
    /\ pc = "failed" =>
         \/ gdf.empty
         \/ ~gdf.hasColumn
         \/ MissingCode
         \/ error = "OSError"
    /\ pc \notin {"done", "failed"} => ENABLED Next
    /\ pc = "done" =>
         /\ steps = CellOrder
         /\ legendFile.status = "complete"
         /\ textureFile.status = "complete"
         /\ printed # <<>>

CrsMismatchOnlyWarnsWitness ==
    /\ pc = "done"
    /\ gdf.crs # ExpectedCRS
    /\ warned
    /\ legendFile.status = "complete"
    /\ textureFile.status = "complete"
    /\ printed # <<>>

TextureAspect ==
    textureFile.status = "complete" =>
        LET w == xlim[2] - xlim[1]
            h == ylim[2] - ylim[1]
        IN  /\ w > 0 /\ h > 0
            /\ Abs(textureFile.size.w * h - textureFile.size.h * w) <= w + h

TextureAspectWitness ==
    /\ textureFile.status = "complete"
    /\ xlim[2] - xlim[1] = 2 * (ylim[2] - ylim[1])
    /\ textureFile.size.w = 2 * textureFile.size.h
    /\ 3 * textureFile.size.w # 4 * textureFile.size.h

\* C7: after a failed run neither destination holds a half-written image.
NoPartialFileAfterFailure ==
    pc = "failed" =>
        /\ legendFile.status # "partial"
        /\ textureFile.status # "partial"

\* C8: whenever the texture is written, the legend image has been saved and
\* the legend then detached, equal-aspect scaling applied, ticks and frame
\* removed and the padding set to zero; the statements of the cell run once
\* each, in program order.
ExporterPreconditions ==
    /\ \E n \in 0..Len(CellOrder) : steps = SubSeq(CellOrder, 1, n)
    /\ textureFile.status # "absent" =>
         /\ steps = CellOrder
         /\ textureFile.canvas.legend_saved
         /\ legendFile.status = "complete"
         /\ ~textureFile.canvas.legend_attached
         /\ textureFile.canvas.aspect = Equal
         /\ ~textureFile.canvas.ticks
         /\ ~textureFile.canvas.axison
         /\ textureFile.canvas.subplotpars = NoPadding

ExporterPreconditionsWitness ==
    /\ textureFile.status = "complete"
    /\ steps = CellOrder
    /\ ~legend.attached
    /\ subplotpars = NoPadding

LimitsFrozenAfterScaling ==
    xlim # <<>> =>
        /\ xlim = <<lim.xmin, lim.xmax>>
        /\ ylim = <<lim.ymin, lim.ymax>>
        /\ xlim = <<Autoscale(gdf.bounds).xmin, Autoscale(gdf.bounds).xmax>>
        /\ textureFile.status # "absent" =>
             textureFile.lim = [xmin |-> xlim[1], xmax |-> xlim[2],
                                ymin |-> ylim[1], ymax |-> ylim[2]]
        /\ printed # <<>> =>
             /\ printed.ll_eastings = xlim[1]
             /\ printed.ll_northings = ylim[1]
             /\ printed.texture_width_cm = 100 * (xlim[2] - xlim[1])
             /\ printed.texture_height_cm = 100 * (ylim[2] - ylim[1])

LimitsFrozenAfterScalingWitness ==
    /\ pc = "done"
    /\ textureFile.status = "complete"
    /\ xlim = <<lim.xmin, lim.xmax>>
    /\ ylim = <<lim.ymin, lim.ymax>>
    /\ printed.ll_eastings = xlim[1]
    /\ xlim[2] - xlim[1] # ylim[2] - ylim[1]

====
